---- MODULE Spec2Model ----
(***************************************************************************)
(* A model of the irdest router core: the collector worker that joins      *)
(* frames into messages (ratman/src/core/collector/worker.rs), the frame   *)
(* journal (ratman/src/core/journal.rs), the router intake that connects   *)
(* a netmod to both, and the UDP netmod socket (netmod-udp/src/socket.rs). *)
(***************************************************************************)
EXTENDS Integers, Sequences, FiniteSets, TLC

VARIABLES
    \* collector
    layered,    \* the serialised bytes that were sliced into the frame pool
    pool,       \* the frames of the sequence under reassembly
    workers,    \* collector state: seqid -> worker
    completed,  \* messages handed to the completion hook, in order
    fed,        \* history: the frames handed to the collector, in order
    results,    \* history: what join_frames returned for each of them
    \* journal
    known,      \* Journal.known
    saved,      \* history: the seqids save() was called with
    queued,     \* history: the seqids of the frames queue() was called with
    answer,     \* the last unknown() call: <<>> or <<seqid, result>>
    mesh,       \* several nodes, each with its journal: the links between
                \* them, the known set of each, the frames in flight on each
                \* link, what each node sent, re-emitted and collected
    \* router intake
    locals,     \* the locally hosted addresses
    handed,     \* history: the frames the netmod handed to the intake
    admitted,   \* history: the frames whose seqid the intake journaled
    reflooded,  \* history: the frames the intake re-emitted
    surfaced,   \* history: the messages router.next() returned
    \* UDP netmod
    started,    \* node -> whether Socket::with_addr has run
    table,      \* node -> AddrTable, the peers in order of their ids
    inbox,      \* node -> Socket.inbox
    rx,         \* node -> the receive task: its position, the entry it is about
                \* to push, and the last datagram it took
    waker,      \* node -> whether a waker is registered with the inbox Notify
    consumer,   \* node -> the task calling Socket::next
    net,        \* the datagrams in flight
    nsent,      \* the number of datagrams sent so far
    sent,       \* history: the frames Socket::send was called with, each with
                \* the sending socket and the peer
    appended,   \* history: node -> the entries made of the Data frames that
                \* arrived from known peers, in arrival order
    returned,   \* history: node -> the entries next() returned
    \* IPC daemon
    online,     \* the addresses the router holds as online
    conn,       \* connection -> the session: its phase, the first message and
                \* the result of handle_auth, its address, the messages the
                \* daemon wrote to its stream, the last request it handled
    nreq,       \* the number of requests handled so far
    onlineMap,  \* the online map of the daemon: identity -> connection
    yielded,    \* the number of messages router.next() gave the relay, and
                \* the last of them with the sessions whose stream refused it;
                \* whether run is accepting or has returned, whether the
                \* relay task is running or cancelled
    stream      \* the streams of the sessions, write by write: the session
                \* the relay is writing to and how far it is, the sessions
                \* whose lock is held, the chunks written to each stream, how
                \* far each request loop is in a write

collectorVars == <<layered, pool, workers, completed, fed, results>>
journalVars == <<known, saved, queued, answer, mesh>>
routerVars == <<locals, handed, admitted, reflooded, surfaced>>
udpVars == <<started, table, inbox, rx, waker, consumer, net, nsent, sent, appended,
            returned>>
ipcVars == <<online, conn, nreq, onlineMap, yielded, stream>>
vars == <<collectorVars, journalVars, routerVars, udpVars, ipcVars>>

----------------------------------------------------------------------------
(* Bounds of the model *)

\* the longest inner payload of a message
MaxPayload == 1
\* the longest byte string that is sliced without being a serialised message
MaxRaw == 3
\* the largest frame payload capacity the slicer is run with
MaxCap == 3
\* the number of frames fed to the collector in one behaviour
MaxFeeds == 4
\* the number of sequence ids
MaxSeqId == 3
\* the number of frames the netmod hands to the intake in one behaviour
MaxHanded == 3
\* the number of datagrams that sockets and strangers send on their own
MaxDatagrams == 3
\* the number of requests the request loops handle in one behaviour
MaxRequests == 2
\* the number of messages router.next() gives the relay in one behaviour
MaxYielded == 2
\* the number of chunks written to the streams in one behaviour
MaxChunks == 4
\* the number of transmissions of frames between the nodes of a mesh
MaxTransmissions == 25

Byte == 0 .. 1

Min(a, b) == IF a < b THEN a ELSE b

\* the byte strings of length lo..hi
ByteStrings(lo, hi) == UNION {[1 .. k -> Byte] : k \in lo .. hi}

SeqIds == 1 .. MaxSeqId
Addrs == {"alice", "bob", "carol"}
Flood == "flood"

----------------------------------------------------------------------------
(* Payload: the envelope a message body travels in.  Its serialised form   *)
(* is what the slicer cuts into frames and what join_frames deserialises.  *)

PayloadEnvs == [payload : ByteStrings(0, MaxPayload), sent : Byte, sign : Byte]

\* length-prefixed payload, then the time signature, then the signature
Serialize(p) == <<Len(p.payload)>> \o p.payload \o <<p.sent, p.sign>>

\* bincode::deserialize: fails on short input, ignores trailing bytes
Deserialize(b) ==
    IF Len(b) >= 1 /\ Len(b) >= b[1] + 3
    THEN [ok |-> TRUE, payload |-> SubSeq(b, 2, 1 + b[1]),
          sent |-> b[2 + b[1]], sign |-> b[3 + b[1]]]
    ELSE [ok |-> FALSE, payload |-> <<>>, sent |-> 0, sign |-> 0]

----------------------------------------------------------------------------
(* SeqBuilder: slicing a byte string into frames and restoring it *)

NumFrames(bytes, cap) == (Len(bytes) + cap - 1) \div cap

Chunk(bytes, cap, i) == SubSeq(bytes, i * cap + 1, Min((i + 1) * cap, Len(bytes)))

\* frame i of N: num = i, next = Some(seqid) iff i < N - 1 (hasNext)
Slice(bytes, cap, sender, recipient, seqid) ==
    { [seqid |-> seqid, num |-> i, hasNext |-> (i < NumFrames(bytes, cap) - 1),
       payload |-> Chunk(bytes, cap, i), sender |-> sender, recipient |-> recipient]
      : i \in 0 .. NumFrames(bytes, cap) - 1 }

RECURSIVE Restore(_)
\* SeqBuilder::restore: the payloads of the buffer, in buffer order
Restore(buf) ==
    IF buf = <<>> THEN <<>> ELSE buf[1].payload \o Restore(Tail(buf))

----------------------------------------------------------------------------
(* The collector worker *)

\* where a stable sort puts x in a buffer sorted by num: after every frame
\* whose num is not larger
InsertByNum(sorted, x) ==
    LET k == Cardinality({i \in 1 .. Len(sorted) : sorted[i].num <= x.num})
    IN  SubSeq(sorted, 1, k) \o <<x>> \o SubSeq(sorted, k + 1, Len(sorted))

RECURSIVE SortByNum(_)
\* buf.sort_by(|a, b| a.seq.num.cmp(&b.seq.num)): a stable sort
SortByNum(s) ==
    IF s = <<>> THEN <<>>
    ELSE InsertByNum(SortByNum(SubSeq(s, 1, Len(s) - 1)), s[Len(s)])

\* Dense with the test of the sequence numbers left out
Dense_unchecked(buf) == TRUE

\* the inductive sequence number property: buf[i].seq.num == i (0-based)
Dense(buf) == \A i \in 1 .. Len(buf) : buf[i].num = i - 1

\* the message join_frames builds from a complete buffer and its payload
BuildMessage(buf, d) ==
    [id |-> buf[1].seqid, sender |-> buf[1].sender, recipient |-> buf[1].recipient,
     payload |-> d.payload, sent |-> d.sent, received |-> TRUE, sign |-> d.sign]

\* join_frames with the sort left out
join_frames_unsorted(buf, new) ==
    LET b == Append(buf, new)
        d == Deserialize(Restore(b))
    IN  IF b[Len(b)].hasNext
        THEN [buf |-> b, msg |-> <<>>, panic |-> FALSE]
        ELSE IF Dense(b)
             THEN IF d.ok
                  THEN [buf |-> b, msg |-> <<BuildMessage(b, d)>>, panic |-> FALSE]
                  ELSE [buf |-> b, msg |-> <<>>, panic |-> TRUE]
             ELSE [buf |-> b, msg |-> <<>>, panic |-> FALSE]

\* join_frames(buf, new): the buffer it leaves, the Option<Message> it
\* returns (a sequence of length 0 or 1) and whether the unwrap panicked
join_frames(buf, new) ==
    LET b == SortByNum(Append(buf, new))
        d == Deserialize(Restore(b))
    IN  IF b[Len(b)].hasNext
        THEN [buf |-> b, msg |-> <<>>, panic |-> FALSE]
        ELSE IF Dense(b)
             THEN IF d.ok
                  THEN [buf |-> b, msg |-> <<BuildMessage(b, d)>>, panic |-> FALSE]
                  ELSE [buf |-> b, msg |-> <<>>, panic |-> TRUE]
             ELSE [buf |-> b, msg |-> <<>>, panic |-> FALSE]

NoWorker == [st |-> "none", buf |-> <<>>]

\* what one call of join_frames came to, for the history
Outcome(w, r) ==
    IF w.st = "dead" THEN "stalled"
    ELSE IF r.panic THEN "panic"
    ELSE IF r.msg # <<>> THEN "some" ELSE "none"

\* Worker::poll on frame f, with the worker looked up or created first:
\* the message goes to the completion hook and the worker leaves the map,
\* or the frame stays buffered; a worker whose task panicked takes no frame
Ingest(f) ==
    LET w == workers[f.seqid]
        r == join_frames(w.buf, f)
    IN  /\ fed' = Append(fed, f)
        /\ results' = Append(results, Outcome(w, r))
        /\ IF w.st = "dead"
           THEN UNCHANGED <<workers, completed>>
           ELSE IF r.panic
           THEN /\ workers' = [workers EXCEPT ![f.seqid] = [st |-> "dead", buf |-> r.buf]]
                /\ UNCHANGED completed
           ELSE IF r.msg # <<>>
           THEN /\ workers' = [workers EXCEPT ![f.seqid] = NoWorker]
                /\ completed' = Append(completed, r.msg[1])
           ELSE /\ workers' = [workers EXCEPT ![f.seqid] = [st |-> "run", buf |-> r.buf]]
                /\ UNCHANGED completed

\* a frame of the pool is fed to the collector
Feed ==
    /\ Len(fed) < MaxFeeds
    /\ \E f \in pool : Ingest(f)
    /\ UNCHANGED <<layered, pool, journalVars, routerVars, udpVars, ipcVars>>

\* the byte strings a sequence is built from: every serialised message, and
\* every short byte string (a sequence built by hand, as in join_frame_simple)
Layered == {Serialize(p) : p \in PayloadEnvs} \cup ByteStrings(1, MaxRaw)

JournalIdle ==
    /\ known = {} /\ saved = {} /\ queued = {} /\ answer = <<>> /\ mesh = <<>>

RouterIdle ==
    /\ locals = {} /\ handed = <<>> /\ admitted = <<>> /\ reflooded = <<>> /\ surfaced = <<>>

IpcIdle ==
    /\ online = {} /\ conn = <<>> /\ nreq = 0 /\ onlineMap = <<>>
    /\ yielded = [n |-> 0, last |-> <<>>] /\ stream = <<>>

UdpIdle ==
    /\ started = <<>> /\ table = <<>> /\ inbox = <<>> /\ rx = <<>>
    /\ waker = <<>> /\ consumer = <<>> /\ net = {} /\ nsent = 0 /\ sent = {}
    /\ appended = <<>> /\ returned = <<>>

CollectorFresh ==
    /\ workers = [s \in SeqIds |-> NoWorker]
    /\ completed = <<>> /\ fed = <<>> /\ results = <<>>

InitCollector ==
    /\ \E bytes \in Layered, cap \in 1 .. MaxCap :
          /\ layered = bytes
          /\ pool = Slice(bytes, cap, "alice", "bob", 1)
    /\ CollectorFresh
    /\ JournalIdle /\ RouterIdle /\ UdpIdle /\ IpcIdle

NextCollector == Feed

SpecCollector == InitCollector /\ [][NextCollector]_vars

----------------------------------------------------------------------------
(* The journal *)

\* save with the insertion left out
save_dropped(set, fid) == set

\* save that keeps the latest seqid only
save_evicting(set, fid) == {fid}

\* Journal::save: known.insert(fid)
save(set, fid) == set \cup {fid}

\* Journal::queue: the body is empty
queue(set, frame) == set

\* unknown that takes every seqid for a new one
unknown_always(set, fid) == TRUE

\* Journal::unknown: !known.contains(fid)
unknown(set, fid) == fid \notin set

JournalSave ==
    /\ \E fid \in SeqIds :
          /\ known' = save(known, fid)
          /\ saved' = saved \cup {fid}
    /\ UNCHANGED <<queued, answer, mesh, collectorVars, routerVars, udpVars, ipcVars>>

JournalQueue ==
    /\ \E f \in Slice(<<0>>, 1, "alice", "bob", 1) \cup Slice(<<0>>, 1, "alice", Flood, 2) :
          /\ known' = queue(known, f)
          /\ queued' = queued \cup {f.seqid}
    /\ UNCHANGED <<saved, answer, mesh, collectorVars, routerVars, udpVars, ipcVars>>

JournalUnknown ==
    /\ \E fid \in SeqIds : answer' = <<fid, unknown(known, fid)>>
    /\ UNCHANGED <<known, saved, queued, mesh, collectorVars, routerVars, udpVars, ipcVars>>

InitJournal ==
    /\ known = {} /\ saved = {} /\ queued = {} /\ answer = <<>> /\ mesh = <<>>
    /\ layered = <<>> /\ pool = {} /\ CollectorFresh
    /\ RouterIdle /\ UdpIdle /\ IpcIdle

NextJournal == JournalSave \/ JournalQueue \/ JournalUnknown

SpecJournal == InitJournal /\ [][NextJournal]_vars

----------------------------------------------------------------------------
(* The router intake: what it does with each frame the netmod hands it *)

\* whether this node collects frames for the recipient
Collects(recipient) == recipient = Flood \/ recipient \in locals

\* step 1: the seqid is already in the journal
Seen(f) == ~unknown(known, f.seqid)

Intake ==
    /\ Len(handed) < MaxHanded
    /\ \E f \in pool :
          /\ handed' = Append(handed, f)
          /\ IF Seen(f)
             THEN UNCHANGED <<known, saved, admitted, reflooded, workers, completed,
                              fed, results>>
             ELSE /\ known' = save(known, f.seqid)
                  /\ saved' = saved \cup {f.seqid}
                  /\ admitted' = Append(admitted, f)
                  /\ reflooded' = IF f.recipient = Flood
                                  THEN Append(reflooded, f) ELSE reflooded
                  /\ IF Collects(f.recipient)
                     THEN Ingest(f)
                     ELSE UNCHANGED <<workers, completed, fed, results>>
    /\ UNCHANGED <<layered, pool, queued, answer, mesh, locals, surfaced, udpVars,
                   ipcVars>>

\* router.next(): the next completed message, in completion order
RouterNext ==
    /\ Len(surfaced) < Len(completed)
    /\ surfaced' = Append(surfaced, completed[Len(surfaced) + 1])
    /\ UNCHANGED <<collectorVars, journalVars, locals, handed, admitted, reflooded, udpVars, ipcVars>>

\* one message from alice, sliced, and a one-frame message of another seqid
InitRouter ==
    /\ \E body \in ByteStrings(0, MaxPayload), cap \in 1 .. MaxCap, to \in {"bob", "carol", Flood} :
          /\ layered = Serialize([payload |-> body, sent |-> 0, sign |-> 1])
          /\ pool = Slice(layered, cap, "alice", to, 1)
                    \cup Slice(Serialize([payload |-> <<>>, sent |-> 1, sign |-> 0]),
                               MaxCap + 2, "carol", "bob", 2)
    /\ locals = {"bob"}
    /\ handed = <<>> /\ admitted = <<>> /\ reflooded = <<>> /\ surfaced = <<>>
    /\ CollectorFresh /\ JournalIdle /\ UdpIdle /\ IpcIdle

NextRouter == Intake \/ RouterNext

SpecRouter == InitRouter /\ [][NextRouter]_vars

----------------------------------------------------------------------------
(* A mesh of nodes that flood: each node runs the send path and the intake  *)
(* over its own journal                                                     *)

MeshNodes == {"n1", "n2", "n3", "n4"}
\* the node that sends the flood message
Origin == "n1"
\* the frames of the flood message, in the order they are sent
FloodFrames == Slice(<<0, 0>>, 1, Origin, Flood, 1)
FrameOfNum(i) == CHOOSE f \in FloodFrames : f.num = i
\* the topologies: every set of links between two nodes, a link in both directions
Links == {<<a, b>> \in MeshNodes \X MeshNodes : a # b}
Topologies == {l \in SUBSET Links : \A e \in l : <<e[2], e[1]>> \in l}
\* the peers a node knows
Neighbours(links, n) == {m \in MeshNodes : <<n, m>> \in links}

\* netmod.send(frame, peer) for each peer of a set: one more copy of the
\* frame in flight on each link
Emit(wire, f, n, peers) ==
    [e \in Links |-> IF e[1] = n /\ e[2] \in peers
                     THEN [wire[e] EXCEPT ![f] = @ + 1] ELSE wire[e]]

\* Router::send on the origin, one frame of the message: (a) its seqid is
\* recorded in the journal, (b) Flood: the frame is sent to every known peer
FloodSend ==
    /\ mesh.next < Cardinality(FloodFrames)
    /\ LET f == FrameOfNum(mesh.next)
           peers == Neighbours(mesh.links, Origin)
       IN  /\ mesh.nsent + Cardinality(peers) <= MaxTransmissions
           /\ mesh' = [mesh EXCEPT
                         !.known[Origin] = save(@, f.seqid),
                         !.wire = Emit(@, f, Origin, peers),
                         !.next = @ + 1,
                         !.nsent = @ + Cardinality(peers)]
    /\ UNCHANGED <<known, saved, queued, answer, collectorVars, routerVars, udpVars,
                   ipcVars>>

\* the intake of node n takes frame f that arrived from peer m: a seqid of
\* the journal is dropped; otherwise it is journaled, a Flood frame is
\* re-emitted to all other known peers and handed to the collector
FloodIntake(n, m, f) ==
    /\ <<m, n>> \in Links /\ mesh.wire[<<m, n>>][f] > 0
    /\ LET peers == Neighbours(mesh.links, n) \ {m}
           arrived == [mesh EXCEPT !.wire[<<m, n>>][f] = @ - 1]
       IN  IF unknown(mesh.known[n], f.seqid)
           THEN /\ mesh.nsent + Cardinality(peers) <= MaxTransmissions
                /\ mesh' = [arrived EXCEPT
                              !.known[n] = save(@, f.seqid),
                              !.wire = Emit(@, f, n, peers),
                              !.emitted[n][f] = @ + 1,
                              !.collected[n][f] = @ + 1,
                              !.nsent = @ + Cardinality(peers)]
           ELSE mesh' = arrived
    /\ UNCHANGED <<known, saved, queued, answer, collectorVars, routerVars, udpVars,
                   ipcVars>>

\* the nodes with fresh journals in some topology, nothing sent yet
InitFlood ==
    /\ \E l \in Topologies :
          mesh = [links |-> l,
                  known |-> [n \in MeshNodes |-> {}],
                  wire |-> [e \in Links |-> [f \in FloodFrames |-> 0]],
                  emitted |-> [n \in MeshNodes |-> [f \in FloodFrames |-> 0]],
                  collected |-> [n \in MeshNodes |-> [f \in FloodFrames |-> 0]],
                  next |-> 0, nsent |-> 0]
    /\ known = {} /\ saved = {} /\ queued = {} /\ answer = <<>>
    /\ layered = <<>> /\ pool = {} /\ CollectorFresh
    /\ RouterIdle /\ UdpIdle /\ IpcIdle

NextFlood ==
    \/ FloodSend
    \/ \E n, m \in MeshNodes, f \in FloodFrames : FloodIntake(n, m, f)

SpecFlood == InitFlood /\ [][NextFlood]_vars

----------------------------------------------------------------------------
(* The UDP netmod: envelopes, the address table, the socket *)

\* the sockets of the model
Nodes == {"A", "B"}
\* the socket whose receive loop and inbox SpecUdp follows
Tested == "A"
\* a peer on another host: it sends datagrams, its socket is not modelled
Remote == "X"
Peers == Nodes \cup {Remote}
\* the frames carried in Data envelopes
Frames == {0, 1}

\* Envelope::as_bytes and Envelope::frame: the tag, then the frame
Announce == <<0>>
Reply == <<1>>
Data(f) == <<2, f>>

\* byte i of the receive buffer, which is zeroed before each read
BufAt(data, i) == IF i <= Len(data) THEN data[i] ELSE 0

\* Envelope::from_bytes on the receive buffer; an unknown tag is no Envelope
from_bytes(data) ==
    CASE BufAt(data, 1) = 0 -> [kind |-> "announce", frame |-> 0]
      [] BufAt(data, 1) = 1 -> [kind |-> "reply", frame |-> 0]
      [] BufAt(data, 1) = 2 -> [kind |-> "data", frame |-> BufAt(data, 2)]
      [] OTHER -> [kind |-> "error", frame |-> 0]

\* the datagrams the remote peer may send: envelopes, an empty datagram, and
\* a datagram with a tag that is none of the three.  A datagram that is never
\* received is a datagram lost.
Wire == {Announce, <<>>, <<3>>} \cup {Data(f) : f \in Frames}

\* AddrTable::id: the id of a peer, ids counting from 0 (a sequence of
\* length 0 or 1 for the Option)
id(tbl, peer) ==
    IF \E i \in 1 .. Len(tbl) : tbl[i] = peer
    THEN <<(CHOOSE i \in 1 .. Len(tbl) : tbl[i] = peer) - 1>>
    ELSE <<>>

\* AddrTable::set: the next id for a peer that has none
set(tbl, peer) == IF id(tbl, peer) = <<>> THEN Append(tbl, peer) ELSE tbl

\* inbox.push_back with the entry put at the front
push_front(q, e) == <<e>> \o q

\* inbox.push_back
push_back(q, e) == Append(q, e)

\* the envelopes an arm of incoming_handle sends to the group, with a Reply
\* sent for a Reply too
Answers_echo(kind) == IF kind \in {"announce", "reply"} THEN {Reply} ELSE {}

\* the envelopes an arm of incoming_handle sends to the group: a Reply for an
\* Announce, nothing for a Reply or a Data
Answers(kind) == IF kind = "announce" THEN {Reply} ELSE {}

\* Socket::with_addr that sends no Announce
Start_silent(n) ==
    /\ ~started[n]
    /\ started' = [started EXCEPT ![n] = TRUE]
    /\ rx' = [rx EXCEPT ![n].pc = "recv"]
    /\ UNCHANGED <<table, inbox, waker, consumer, net, nsent, sent, appended, returned,
                   collectorVars, journalVars, routerVars, ipcVars>>

\* Socket::with_addr that announces without a receive task spawned
Start_unspawned(n) ==
    /\ ~started[n]
    /\ started' = [started EXCEPT ![n] = TRUE]
    /\ net' = net \cup {[src |-> n, dst |-> m, data |-> <<0>>] : m \in {k \in {"A", "B"} : started'[k]}}
    /\ UNCHANGED <<table, inbox, rx, waker, consumer, nsent, sent, appended, returned,
                   collectorVars, journalVars, routerVars, ipcVars>>

\* Socket::send that puts another frame in the envelope
Send_garbled(n, f, peer) ==
    /\ started[n] /\ nsent < MaxDatagrams
    /\ net' = net \cup {[src |-> n, dst |-> peer, data |-> <<2, 1 - f>>]}
    /\ nsent' = nsent + 1
    /\ sent' = sent \cup {[src |-> n, dst |-> peer, frame |-> f]}
    /\ UNCHANGED <<started, table, inbox, rx, waker, consumer, appended, returned,
                   collectorVars, journalVars, routerVars, ipcVars>>

\* Socket::multicast: one datagram to the group, which every socket that has
\* joined receives a copy of (the sender too: multicast loop is on by default)
Multicast(n, data, members) == {[src |-> n, dst |-> m, data |-> data] : m \in members}

\* the datagrams that the arm of an envelope of this kind multicasts from n
Echo(n, kind) ==
    UNION {Multicast(n, e, {m \in Nodes : started[m]}) : e \in Answers(kind)}

\* Socket::with_addr: bind, join the group, spawn the receive task, announce
Start(n) ==
    /\ ~started[n]
    /\ started' = [started EXCEPT ![n] = TRUE]
    /\ rx' = [rx EXCEPT ![n].pc = "recv"]
    /\ net' = net \cup Multicast(n, Announce, {m \in Nodes : started'[m]})
    /\ UNCHANGED <<table, inbox, waker, consumer, nsent, sent, appended, returned,
                   collectorVars, journalVars, routerVars, ipcVars>>

\* Socket::send: the Data envelope of a frame, unicast to a peer
Send(n, f, peer) ==
    /\ started[n] /\ nsent < MaxDatagrams
    /\ net' = net \cup {[src |-> n, dst |-> peer, data |-> Data(f)]}
    /\ nsent' = nsent + 1
    /\ sent' = sent \cup {[src |-> n, dst |-> peer, frame |-> f]}
    /\ UNCHANGED <<started, table, inbox, rx, waker, consumer, appended, returned,
                   collectorVars, journalVars, routerVars, ipcVars>>

\* the remote peer sends a datagram to a socket
Inject(data, n) ==
    /\ started[n] /\ nsent < MaxDatagrams
    /\ net' = net \cup {[src |-> Remote, dst |-> n, data |-> data]}
    /\ nsent' = nsent + 1
    /\ UNCHANGED <<started, table, inbox, rx, waker, consumer, sent, appended, returned,
                   collectorVars, journalVars, routerVars, ipcVars>>

\* incoming_handle, one turn of the loop up to the inbox lock: recv_from,
\* decode, and the arm of the envelope.  A Data arm leaves the task holding
\* the inbox write lock with the entry to push; a panic ends the task.
Receive(n, d) ==
    LET env == from_bytes(d.data)
        pid == id(table[n], d.src)
        took == <<[src |-> d.src, data |-> d.data]>>
    IN  /\ rx[n].pc = "recv" /\ d \in net /\ d.dst = n
        /\ CASE env.kind = "announce" ->
                  /\ table' = [table EXCEPT ![n] = set(table[n], d.src)]
                  /\ net' = (net \ {d}) \cup Echo(n, env.kind)
                  /\ rx' = [rx EXCEPT ![n].last = took]
                  /\ UNCHANGED appended
             [] env.kind = "reply" ->
                  /\ table' = [table EXCEPT ![n] = set(table[n], d.src)]
                  /\ net' = (net \ {d}) \cup Echo(n, env.kind)
                  /\ rx' = [rx EXCEPT ![n].last = took]
                  /\ UNCHANGED appended
             [] env.kind = "data" /\ pid # <<>> ->
                  /\ rx' = [rx EXCEPT ![n] = [pc |-> "push", last |-> took,
                                              held |-> <<[frame |-> env.frame, target |-> pid[1]]>>]]
                  /\ appended' = [appended EXCEPT
                                     ![n] = Append(@, [frame |-> env.frame, target |-> pid[1]])]
                  /\ net' = net \ {d}
                  /\ UNCHANGED table
             [] OTHER ->
                  \* table.id(peer).unwrap() on None, or from_bytes on no Envelope
                  /\ rx' = [rx EXCEPT ![n] = [pc |-> "dead", last |-> took, held |-> <<>>]]
                  /\ net' = net \ {d}
                  /\ UNCHANGED <<table, appended>>
        /\ UNCHANGED <<started, inbox, waker, consumer, nsent, sent, returned,
                       collectorVars, journalVars, routerVars, ipcVars>>

\* incoming_handle, the rest of the Data arm: push_back, Notify::wake, and
\* the lock is released
Push(n) ==
    /\ rx[n].pc = "push"
    /\ inbox' = [inbox EXCEPT ![n] = push_back(@, rx[n].held[1])]
    /\ rx' = [rx EXCEPT ![n].pc = "recv", ![n].held = <<>>]
    /\ waker' = [waker EXCEPT ![n] = FALSE]
    /\ consumer' = [consumer EXCEPT ![n] = IF waker[n] /\ @ = "pending" THEN "ready" ELSE @]
    /\ UNCHANGED <<started, table, net, nsent, sent, appended, returned,
                   collectorVars, journalVars, routerVars, ipcVars>>

\* the consumer calls Socket::next: the future is created and scheduled
NextCall(n) ==
    /\ started[n] /\ consumer[n] = "idle"
    /\ consumer' = [consumer EXCEPT ![n] = "ready"]
    /\ UNCHANGED <<started, table, inbox, rx, waker, net, nsent, sent, appended,
                   returned,
                   collectorVars, journalVars, routerVars, ipcVars>>

\* a poll of Socket::next that completes whatever the inbox holds
NextPoll_hasty(n) ==
    /\ consumer[n] = "ready"
    /\ consumer' = [consumer EXCEPT ![n] = "idle"]
    /\ UNCHANGED <<started, table, inbox, rx, waker, net, nsent, sent, appended,
                   returned, collectorVars, journalVars, routerVars, ipcVars>>

\* one poll of the future of Socket::next
NextPoll(n) ==
    /\ consumer[n] = "ready"
    /\ IF rx[n].pc = "push"
       THEN \* the write lock is held: Poll::Pending, no waker registered
            /\ consumer' = [consumer EXCEPT ![n] = "pending"]
            /\ UNCHANGED <<inbox, waker, returned>>
       ELSE IF inbox[n] # <<>>
       THEN \* pop_front: Poll::Ready(f)
            /\ returned' = [returned EXCEPT ![n] = Append(@, Head(inbox[n]))]
            /\ inbox' = [inbox EXCEPT ![n] = Tail(@)]
            /\ consumer' = [consumer EXCEPT ![n] = "idle"]
            /\ UNCHANGED waker
       ELSE \* Notify::register_waker, Poll::Pending
            /\ waker' = [waker EXCEPT ![n] = TRUE]
            /\ consumer' = [consumer EXCEPT ![n] = "pending"]
            /\ UNCHANGED <<inbox, returned>>
    /\ UNCHANGED <<started, table, rx, net, nsent, sent, appended,
                   collectorVars, journalVars, routerVars, ipcVars>>

\* no socket created yet
NoSocket ==
    /\ started = [n \in Nodes |-> FALSE]
    /\ inbox = [n \in Nodes |-> <<>>]
    /\ rx = [n \in Nodes |-> [pc |-> "off", last |-> <<>>, held |-> <<>>]]
    /\ waker = [n \in Nodes |-> FALSE]
    /\ consumer = [n \in Nodes |-> "idle"]
    /\ net = {} /\ nsent = 0 /\ sent = {}
    /\ appended = [n \in Nodes |-> <<>>]
    /\ returned = [n \in Nodes |-> <<>>]
    /\ layered = <<>> /\ pool = {} /\ CollectorFresh
    /\ JournalIdle /\ RouterIdle /\ IpcIdle

\* no socket created yet; the table of the socket that will be is empty or
\* was told of a peer beforehand (as test_single_unicast does)
InitUdp ==
    /\ \E t \in {<<>>} \cup {<<p>> : p \in Peers \ {Tested}} :
          table = [n \in Nodes |-> IF n = Tested THEN t ELSE <<>>]
    /\ NoSocket

\* one socket and its peers
NextUdp ==
    \/ Start(Tested)
    \/ \E f \in Frames, peer \in Peers \ {Tested} : Send(Tested, f, peer)
    \/ \E data \in Wire, n \in Nodes : Inject(data, n)
    \/ \E n \in Nodes, d \in net : Receive(n, d)
    \/ \E n \in Nodes : Push(n)
    \/ \E n \in Nodes : NextCall(n)
    \/ \E n \in Nodes : NextPoll(n)

SpecUdp == InitUdp /\ [][NextUdp]_vars

\* two sockets on one multicast group, neither told of the other
InitDiscovery ==
    /\ InitUdp
    /\ table = [n \in Nodes |-> <<>>]

\* the two sockets are created in either order and their receive tasks run;
\* no frame is sent
NextDiscovery ==
    \/ \E n \in Nodes : Start(n)
    \/ \E n \in Nodes, d \in net : Receive(n, d)
    \/ \E n \in Nodes : NextCall(n)
    \/ \E n \in Nodes : NextPoll(n)

\* the receive task of a socket is spawned by with_addr and loops on
\* recv_from: a datagram that was delivered to the socket is taken
SpecDiscovery ==
    /\ InitDiscovery /\ [][NextDiscovery]_vars
    /\ \A n \in Nodes : WF_vars(\E d \in net : Receive(n, d))

\* test_single_unicast: the two tables are told of the other endpoint before
\* the sockets are created (the table of the receiver may hold another peer
\* already, so that the sender's id is 0 or 1)
InitUnicast ==
    /\ NoSocket
    /\ \E t \in {<<"A">>, <<Remote, "A">>} :
          table = [n \in Nodes |-> IF n = "A" THEN <<"B">> ELSE t]

\* test_single_unicast: s1 and s2 are created, s1 sends frames to p2 and s2
\* is asked for its next entry
NextUnicast ==
    \/ Start("A")
    \/ started["A"] /\ Start("B")
    \/ \E f \in Frames : started["B"] /\ Send("A", f, "B")
    \/ \E n \in Nodes, d \in net : Receive(n, d)
    \/ \E n \in Nodes : Push(n)
    \/ NextCall("B")
    \/ NextPoll("B")

SpecUnicast == InitUnicast /\ [][NextUnicast]_vars

----------------------------------------------------------------------------
(* The IPC daemon: the handshake and the request loop of a session *)

\* the connections of the model
Conns == {1, 2}
\* Identity: an opaque value of two bits, and its bytes
Identities == 0 .. 3
IdBytes == {<<a, b>> : a, b \in Byte}
\* Identity::from_bytes and Identity::as_bytes
Identity_from_bytes(b) == 2 * b[1] + b[2]
Identity_as_bytes(i) == <<i \div 2, i % 2>>

\* an API message: its arm, the type of a setup or peers message, the
\* optional id and token of a setup (sequences of length 0 or 1), the list of
\* a peers message, the recipients of a send (the optional recipient of a recv).  The arm "none" is an envelope with no inner payload,
\* "garbage" are bytes parse_message fails on.
ApiMsg(arm, type, i, token, list) ==
    [arm |-> arm, type |-> type, id |-> i, token |-> token, peers |-> list,
     to |-> <<>>]
api_setup(type, i, token) == ApiMsg("setup", type, i, token, {})
api_peers(type, list) == ApiMsg("peers", type, <<>>, <<>>, list)
api_send == ApiMsg("send", "", <<>>, <<>>, {})
\* a send to a list of recipients
api_send_to(list) == [api_send EXCEPT !.to = list]
api_recv == ApiMsg("recv", "", <<>>, <<>>, {})
NoInner == ApiMsg("none", "", <<>>, <<>>, {})
Garbage == ApiMsg("garbage", "", <<>>, <<>>, {})

\* online_ack: the setup message that carries the bytes of the identity
online_ack(i) == api_setup("ONLINE_ACK", <<Identity_as_bytes(i)>>, <<>>)
\* all_peers: the peers response with a list of addresses
all_peers(list) == api_peers("RESP", list)

\* the first messages and the requests a client may send
SetupTypes == {"ONLINE", "ANONYMOUS", "ONLINE_ACK"}
ClientIds == {<<>>, <<<<0, 1>>>>, <<<<1, 0>>>>}
Tokens == {<<>>, <<"t">>, <<"u">>}
FirstMsgs ==
    {api_setup(t, i, k) : t \in SetupTypes, i \in ClientIds, k \in Tokens}
        \cup {api_send, api_recv, api_peers("REQ", {}), NoInner, Garbage}
Requests ==
    {api_send, api_recv, api_peers("REQ", {}), api_peers("RESP", {1}),
     api_setup("ONLINE", <<>>, <<>>), NoInner, Garbage}
        \cup {api_send_to(l) : l \in {<<0>>, <<2>>, <<0, 2>>, <<2, 0>>}}

\* the addresses the router has a route to: Router::send fails with NoRoute
\* for every other recipient
Routed == {0, 1}

\* transform::send_to_message: one message for each recipient of the send
send_to_message(send) == send.to

\* handle_send: the calls of router.send it makes, one for each message up
\* to the first that fails (the ? returns its error), and its result
handle_send(msgs) ==
    LET bad == {i \in 1 .. Len(msgs) : msgs[i] \notin Routed}
        stop == IF bad = {} THEN Len(msgs)
                ELSE CHOOSE i \in bad : \A j \in bad : i <= j
    IN  [calls |-> SubSeq(msgs, 1, stop), ok |-> bad = {}]

\* Router::known_addresses: the registered addresses
known_addresses(users) == users

\* what a handshake did: its result, the identity of an Ok(Some), the
\* addresses it registered and brought online, the messages it wrote
AuthResult(res, i, add, up, wrote) ==
    [res |-> res, id |-> i, add |-> add, up |-> up, wrote |-> wrote]

\* handle_auth for a known client, without the call of Router::online
auth_known_offline(idb, w) ==
    LET i == Identity_from_bytes(idb)
    IN  IF w THEN AuthResult("some", <<i>>, {i}, {}, <<online_ack(i)>>)
        ELSE AuthResult("io", <<>>, {i}, {}, <<>>)

\* handle_auth, an ONLINE setup with id and token: add_user (its result is
\* dropped), online, the online-ack; w says whether the stream takes a write
auth_known(idb, w) ==
    LET i == Identity_from_bytes(idb)
    IN  IF w THEN AuthResult("some", <<i>>, {i}, {i}, <<online_ack(i)>>)
        ELSE AuthResult("io", <<>>, {i}, {i}, <<>>)

\* handle_auth for a new client, without the call of Router::add_user
auth_new_unregistered(fresh, w) ==
    IF w THEN AuthResult("some", <<fresh>>, {}, {fresh}, <<online_ack(fresh)>>)
    ELSE AuthResult("io", <<>>, {}, {fresh}, <<>>)

\* handle_auth for a new client that is told of its identity and not brought
\* online
auth_new_offline(fresh, w) ==
    IF w THEN AuthResult("some", <<fresh>>, {fresh}, {}, <<online_ack(fresh)>>)
    ELSE AuthResult("io", <<>>, {fresh}, {}, <<>>)

\* handle_auth, an ONLINE setup with neither id nor token: fresh is the value
\* of Identity::random(); add_user, online, the online-ack
auth_new(fresh, w) ==
    IF w THEN AuthResult("some", <<fresh>>, {fresh}, {fresh}, <<online_ack(fresh)>>)
    ELSE AuthResult("io", <<>>, {fresh}, {fresh}, <<>>)

\* handle_auth for an anonymous client that is given an address all the same
auth_anonymous_online == AuthResult("none", <<>>, {0}, {0}, <<online_ack(0)>>)

\* handle_auth, an ANONYMOUS setup: Ok(None)
auth_anonymous == AuthResult("none", <<>>, {}, {}, <<>>)

\* handle_auth where an ONLINE setup with an id and no token counts as known
auth_arm_lenient(msg) ==
    CASE msg.arm = "garbage" -> "parse"
      [] msg.arm = "setup" /\ msg.type = "ONLINE" ->
            IF msg.id # <<>> THEN "known"
            ELSE IF msg.token = <<>> THEN "new" ELSE "invalid"
      [] msg.arm = "setup" /\ msg.type = "ANONYMOUS" -> "anonymous"
      [] OTHER -> "invalid"

\* handle_auth that takes a client for known when its token is the right one
auth_arm_validating(msg) ==
    CASE msg.arm = "garbage" -> "parse"
      [] msg.arm = "none" -> "invalid"
      [] msg.arm = "setup" /\ msg.type = "ONLINE" ->
            IF msg.id # <<>> /\ msg.token = <<"t">> THEN "known"
            ELSE IF msg.id = <<>> /\ msg.token = <<>> THEN "new"
            ELSE "invalid"
      [] msg.arm = "setup" /\ msg.type = "ANONYMOUS" -> "anonymous"
      [] OTHER -> "invalid"

\* handle_auth, the arm the first message is handled by
auth_arm(msg) ==
    CASE msg.arm = "garbage" -> "parse"
      [] msg.arm = "none" -> "invalid"
      [] msg.arm = "setup" /\ msg.type = "ONLINE" ->
            IF msg.id # <<>> /\ msg.token # <<>> THEN "known"
            ELSE IF msg.id = <<>> /\ msg.token = <<>> THEN "new"
            ELSE "invalid"
      [] msg.arm = "setup" /\ msg.type = "ANONYMOUS" -> "anonymous"
      [] OTHER -> "invalid"

\* handle_auth on the first message of a connection
handle_auth(msg, fresh, w) ==
    CASE auth_arm(msg) = "known" -> auth_known(msg.id[1], w)
      [] auth_arm(msg) = "new" -> auth_new(fresh, w)
      [] auth_arm(msg) = "anonymous" -> auth_anonymous
      [] auth_arm(msg) = "parse" -> AuthResult("parse", <<>>, {}, {}, <<>>)
      [] OTHER -> AuthResult("InvalidAuth", <<>>, {}, {}, <<>>)

\* handle_peers that answers a peers message of any type
handle_peers_any(msg, users, w) ==
    IF w THEN [wrote |-> <<all_peers(known_addresses(users))>>, panic |-> FALSE]
    ELSE [wrote |-> <<>>, panic |-> TRUE]

\* handle_peers: the messages written, and whether the unwrap of the write
\* panicked
handle_peers(msg, users, w) ==
    IF msg.type # "REQ" THEN [wrote |-> <<>>, panic |-> FALSE]
    ELSE IF w THEN [wrote |-> <<all_peers(known_addresses(users))>>, panic |-> FALSE]
    ELSE [wrote |-> <<>>, panic |-> TRUE]

\* the online map with the session of connection c under identity i, in
\* place of a session that was there
insert(map, i, c) ==
    [x \in DOMAIN map \cup {i} |-> IF x = i THEN c ELSE map[x]]

\* a connection nothing was read from yet
NewSession ==
    [phase |-> "new", first |-> <<>>, res |-> "", addr |-> <<>>, out |-> <<>>,
     last |-> <<>>, calls |-> <<>>]

\* the handshake of connection c: handle_auth reads the first message; the
\* session is open with an address, anonymous, or closed
Auth(c, msg, w) ==
    /\ conn[c].phase = "new" /\ yielded.run = "accepting"
    /\ \E fresh \in Identities \ locals :
          LET r == handle_auth(msg, fresh, w)
          IN  /\ locals' = locals \cup r.add
              /\ online' = online \cup r.up
              /\ conn' = [conn EXCEPT ![c] =
                            [phase |-> CASE r.res = "some" -> "open"
                                         [] r.res = "none" -> "anonymous"
                                         [] OTHER -> "closed",
                             first |-> <<msg>>, res |-> r.res, addr |-> r.id,
                             out |-> r.wrote, last |-> <<>>, calls |-> <<>>]]
              /\ onlineMap' = IF r.res = "some" THEN insert(onlineMap, r.id[1], c)
                              ELSE onlineMap
    /\ UNCHANGED <<nreq, yielded, stream, handed, admitted, reflooded, surfaced,
                   collectorVars, journalVars, udpVars>>

\* parse_stream where a parse error ends every session
Request_fatal(c, msg, w) ==
    /\ conn[c].phase = "open" /\ nreq < MaxRequests
    /\ nreq' = nreq + 1
    /\ conn' = [o \in Conns |->
                  IF msg.arm = "garbage"
                  THEN [conn[o] EXCEPT !.phase = "closed",
                                       !.last = IF o = c THEN <<msg>> ELSE @]
                  ELSE IF o = c THEN [conn[o] EXCEPT !.last = <<msg>>] ELSE conn[o]]
    /\ UNCHANGED <<online, onlineMap, yielded, stream, routerVars, collectorVars,
                   journalVars, udpVars>>

\* parse_stream, one turn of the loop on an open session
Request(c, msg, w) ==
    /\ conn[c].phase = "open" /\ nreq < MaxRequests
    /\ nreq' = nreq + 1
    /\ LET p == IF msg.arm = "peers" THEN handle_peers(msg, locals, w)
                ELSE [wrote |-> <<>>, panic |-> FALSE]
       IN  conn' = [conn EXCEPT ![c].last = <<msg>>,
                                ![c].calls = IF msg.arm = "send"
                                             THEN handle_send(send_to_message(msg)).calls
                                             ELSE <<>>,
                                ![c].out = @ \o p.wrote,
                                ![c].phase = CASE msg.arm = "garbage" -> "closed"
                                               [] p.panic -> "panicked"
                                               [] OTHER -> @]
    /\ UNCHANGED <<online, onlineMap, yielded, stream, routerVars, collectorVars,
                   journalVars, udpVars>>

\* a message router.next() yields: its id and its recipient, <<i>> for
\* Recipient::User(i) and <<>> for Recipient::Flood
Recipients == {<<>>} \cup {<<i>> : i \in Identities}
RouterMsg(k, to) == [id |-> k, recipient |-> to]

\* the recv envelope with the recipient of a Flood message left in
received_addressed(m) ==
    [ApiMsg("recv", "", <<m.id>>, <<>>, {}) EXCEPT
        !.to = IF m.recipient = <<>> THEN <<0>> ELSE m.recipient]

\* run_relay, receive_default(received(..)): the recv envelope of a message,
\* its recipient Some(id) for User(id) and None for Flood
received(m) ==
    [ApiMsg("recv", "", <<m.id>>, <<>>, {}) EXCEPT
        !.to = IF m.recipient = <<>> THEN <<>> ELSE <<m.recipient[1]>>]

\* the sessions of the online map, in the order of their identities
Sessions(map) ==
    LET ids == SelectSeq([i \in 1 .. Cardinality(Identities) |-> i - 1],
                         LAMBDA x : x \in DOMAIN map)
    IN  [k \in 1 .. Len(ids) |-> map[ids[k]]]

\* run_relay that forwards every message to every session
relay_targets_all(m, map) == Sessions(map)

\* run_relay that forwards a message for an address that is not online to
\* every session
relay_targets_fallback(m, map) ==
    IF m.recipient = <<>> THEN Sessions(map)
    ELSE IF m.recipient[1] \in DOMAIN map THEN <<map[m.recipient[1]]>>
    ELSE Sessions(map)

\* run_relay, the match on the recipient: the sessions the envelope is
\* forwarded to, in order
relay_targets(m, map) ==
    IF m.recipient = <<>> THEN Sessions(map)
    ELSE IF m.recipient[1] \in DOMAIN map THEN <<map[m.recipient[1]]>>
    ELSE <<>>

\* run_relay that gives up the fan-out at the first write that fails
fan_out_abort(targets, failing) ==
    LET bad == {i \in 1 .. Len(targets) : targets[i] \in failing}
    IN  IF bad = {} THEN targets
        ELSE SubSeq(targets, 1, (CHOOSE i \in bad : \A j \in bad : i <= j) - 1)

\* run_relay, the fan-out: a write that fails is logged and the next session
\* is written to; the sessions whose stream took the envelope
fan_out(targets, failing) == SelectSeq(targets, LAMBDA c : c \notin failing)

\* forward_recv that puts the envelope in front of what was written before
forward_recv_front(out, r) == <<r>> \o out

\* forward_recv: the envelope is encoded and written to the stream
forward_recv(out, r) == Append(out, r)

\* run_relay, one turn of the loop: router.next() yields a message, which is
\* forwarded under the lock of the online map; failing are the sessions
\* whose stream refuses the write
Relay(to, failing) ==
    /\ yielded.relay = "running"
    /\ yielded.n < MaxYielded
    /\ LET m == RouterMsg(yielded.n + 1, to)
           got == fan_out(relay_targets(m, onlineMap), failing)
       IN  /\ conn' = [c \in Conns |->
                          IF \E k \in 1 .. Len(got) : got[k] = c
                          THEN [conn[c] EXCEPT !.out = forward_recv(@, received(m))]
                          ELSE conn[c]]
           /\ yielded' = [yielded EXCEPT
                             !.n = @ + 1,
                             !.last = <<[msg |-> m, failing |-> failing]>>]
    /\ UNCHANGED <<online, nreq, onlineMap, stream, routerVars, collectorVars,
                   journalVars, udpVars>>

\* run that returns without cancelling the relay task
Shutdown_detached ==
    /\ yielded.run = "accepting"
    /\ yielded' = [yielded EXCEPT !.run = "returned"]
    /\ UNCHANGED <<online, conn, nreq, onlineMap, stream, routerVars, collectorVars,
                   journalVars, udpVars>>

\* run: listen_for_connections returns an error, the accept loop ends, the
\* relay task is cancelled through its handle and run returns
Shutdown ==
    /\ yielded.run = "accepting"
    /\ yielded' = [yielded EXCEPT !.run = "returned", !.relay = "cancelled"]
    /\ UNCHANGED <<online, conn, nreq, onlineMap, stream, routerVars, collectorVars,
                   journalVars, udpVars>>

\* the first messages and the requests of the clients the relay serves
RelayFirstMsgs ==
    {api_setup("ONLINE", <<<<0, 1>>>>, <<"t">>), api_setup("ONLINE", <<<<1, 0>>>>, <<"t">>),
     api_setup("ANONYMOUS", <<>>, <<>>)}
RelayRequests == {api_peers("REQ", {}), Garbage}
\* the recipients of the messages delivered: Flood and two addresses
RelayRecipients == {<<>>, <<1>>, <<2>>}
\* the streams that refuse a write: none, or the stream of one session
Failing == {{}} \cup {{c} : c \in Conns}

\* nothing is being written to a stream
NoWrites ==
    [relay |-> <<>>, locked |-> {}, map |-> FALSE, bytes |-> [c \in Conns |-> <<>>],
     loop |-> [c \in Conns |-> "idle"], n |-> 0]

\* write_with_length: an envelope goes to the stream in two writes, its
\* length and then its bytes
write_with_length(by, part) == [by |-> by, part |-> part]

\* run_relay: the relay takes the lock of the online map, whose guard lives
\* to the end of the if let or of the for loop, and then the lock of a
\* session of the map that it is to forward an envelope to
RelayLock(c) ==
    /\ stream.relay = <<>> /\ c \notin stream.locked /\ ~stream.map
    /\ \E i \in DOMAIN onlineMap : onlineMap[i] = c
    /\ stream' = [stream EXCEPT !.relay = <<[to |-> c, at |-> "len"]>>,
                                !.locked = @ \cup {c}, !.map = TRUE]
    /\ UNCHANGED <<online, conn, nreq, onlineMap, yielded, routerVars, collectorVars,
                   journalVars, udpVars>>

\* forward_recv under the lock: one write of write_with_length
RelayWrite(c) ==
    /\ stream.relay # <<>> /\ stream.relay[1].to = c
    /\ stream.relay[1].at \in {"len", "body"}
    /\ stream.n < MaxChunks
    /\ stream' = [stream EXCEPT
                     !.bytes[c] = Append(@, write_with_length("relay", stream.relay[1].at)),
                     !.relay[1].at = IF @ = "len" THEN "body" ELSE "done",
                     !.n = @ + 1]
    /\ UNCHANGED <<online, conn, nreq, onlineMap, yielded, routerVars, collectorVars,
                   journalVars, udpVars>>

\* run_relay: the guards of the session lock and of the online map go out of
\* scope
RelayUnlock(c) ==
    /\ stream.relay = <<[to |-> c, at |-> "done"]>>
    /\ stream' = [stream EXCEPT !.relay = <<>>, !.locked = @ \ {c}, !.map = FALSE]
    /\ UNCHANGED <<online, conn, nreq, onlineMap, yielded, routerVars, collectorVars,
                   journalVars, udpVars>>

\* handle_peers in the request loop of an open session: one write of
\* write_with_length on io.as_io(); parse_stream owns its Io and takes no lock
PeersWrite(c) ==
    /\ conn[c].phase = "open"
    /\ stream.n < MaxChunks
    /\ stream' = [stream EXCEPT
                     !.bytes[c] = Append(@, write_with_length("loop", IF stream.loop[c] = "idle"
                                                          THEN "len" ELSE "body")),
                     !.loop[c] = IF @ = "idle" THEN "body" ELSE "idle",
                     !.n = @ + 1]
    /\ UNCHANGED <<online, conn, nreq, onlineMap, yielded, routerVars, collectorVars,
                   journalVars, udpVars>>

InitIpc ==
    /\ \E pre \in {{}, {1}} : locals = pre /\ online = pre
    /\ conn = [c \in Conns |-> NewSession]
    /\ nreq = 0 /\ onlineMap = <<>>
    /\ yielded = [n |-> 0, last |-> <<>>, run |-> "accepting", relay |-> "running"]
    /\ stream = NoWrites
    /\ handed = <<>> /\ admitted = <<>> /\ reflooded = <<>> /\ surfaced = <<>>
    /\ layered = <<>> /\ pool = {} /\ CollectorFresh
    /\ JournalIdle /\ UdpIdle

NextIpc ==
    \/ \E c \in Conns, msg \in FirstMsgs, w \in BOOLEAN : Auth(c, msg, w)
    \/ \E c \in Conns, msg \in Requests, w \in BOOLEAN : Request(c, msg, w)

SpecIpc == InitIpc /\ [][NextIpc]_vars

\* the daemon with its relay task: clients come online, ask for the peers or
\* break off, and the router delivers messages
NextRelay ==
    \/ \E c \in Conns, msg \in RelayFirstMsgs, w \in BOOLEAN : Auth(c, msg, w)
    \/ \E c \in Conns, msg \in RelayRequests, w \in BOOLEAN : Request(c, msg, w)
    \/ \E to \in RelayRecipients, failing \in Failing : Relay(to, failing)

SpecRelay == InitIpc /\ [][NextRelay]_vars

\* the daemon until it shuts down and after: clients come online and ask for
\* the peers, the router delivers messages, listening fails
NextShutdown ==
    \/ \E c \in Conns, msg \in RelayFirstMsgs : Auth(c, msg, TRUE)
    \/ \E c \in Conns : Request(c, api_peers("REQ", {}), TRUE)
    \/ \E to \in RelayRecipients : Relay(to, {})
    \/ Shutdown

SpecShutdown == InitIpc /\ [][NextShutdown]_vars

\* the relay and the request loops, write by write: clients come online, the
\* relay forwards envelopes to them and their request loops answer peers
\* requests
NextStream ==
    \/ \E c \in Conns, msg \in RelayFirstMsgs : Auth(c, msg, TRUE)
    \/ \E c \in Conns : RelayLock(c)
    \/ \E c \in Conns : RelayWrite(c)
    \/ \E c \in Conns : RelayUnlock(c)
    \/ \E c \in Conns : PeersWrite(c)

SpecStream == InitIpc /\ [][NextStream]_vars

----------------------------------------------------------------------------
(* Properties of the collector, under SpecCollector *)

\* no frame was fed twice
FedOnce == \A i, j \in 1 .. Len(fed) : i # j => fed[i] # fed[j]

\* the nums of the frames fed, in feeding order
FedNums == [i \in 1 .. Len(fed) |-> fed[i].num]

\* the message join_frames is to build from the pool of payload envelope p
Reassembled(p) ==
    [id |-> 1, sender |-> "alice", recipient |-> "bob",
     payload |-> p.payload, sent |-> p.sent, received |-> TRUE, sign |-> p.sign]

\* C1, as amended: when the frames of a sliced message are fed once each, in
\* any order, join_frames returns None on each of the first N-1 calls and
\* Some(message) on the N-th, and the message's payload is the payload field
\* of the envelope deserialised from the frames' payloads concatenated in
\* ascending num order, which is the payload of the message that was sliced.
C1_OrderIndependent ==
    \A p \in PayloadEnvs :
        (layered = Serialize(p) /\ FedOnce) =>
            /\ \A i \in 1 .. Len(fed) :
                  results[i] = IF i = Cardinality(pool) THEN "some" ELSE "none"
            /\ completed = IF Len(fed) = Cardinality(pool)
                           THEN <<Reassembled(p)>> ELSE <<>>

\* C1, witness: a message of three or more frames was completed by frames
\* fed once each, the first of them not frame 0 and the last not the terminal
C1_Witness ==
    /\ \E p \in PayloadEnvs : layered = Serialize(p)
    /\ FedOnce /\ Cardinality(pool) >= 3 /\ Len(fed) = Cardinality(pool)
    /\ fed[1].num # 0 /\ fed[Len(fed)].hasNext
    /\ Len(completed) = 1

\* C1, as claimed: the completed message's payload is the concatenation of
\* the frames' payloads in ascending num order (the serialised envelope).
C1_PayloadIsConcatenation ==
    \A p \in PayloadEnvs :
        (layered = Serialize(p) /\ FedOnce /\ Len(fed) = Cardinality(pool)) =>
            /\ Len(completed) = 1
            /\ completed[1].payload = layered

\* C2, as claimed: frame 1 of a three-frame sequence fed twice, then frames 0
\* and 2, gives exactly one completion, with the payload of the sequence
\* reassembled without the duplicate.
C2_DuplicateSuppressed ==
    \A p \in PayloadEnvs :
        (layered = Serialize(p) /\ Cardinality(pool) = 3 /\ FedNums = <<1, 1, 0, 2>>) =>
            completed = <<Reassembled(p)>>

\* the frames join_frames looks at when f arrives, before it sorts them
Arrived(f) == Append(workers[f.seqid].buf, f)

\* every num 0..len-1 is carried by exactly one frame, and the frame with the
\* largest num is terminal: the buffer, once sorted by num, has buf[i].num = i
\* and its last frame has next = None
CompleteFrames(s) ==
    /\ \A k \in 0 .. Len(s) - 1 : Cardinality({i \in 1 .. Len(s) : s[i].num = k}) = 1
    /\ \A i \in 1 .. Len(s) : s[i].num = Len(s) - 1 => ~s[i].hasNext

\* C4: a call of join_frames hands a message to the completion hook only
\* when the buffer with the new frame is dense from 0 and ends in the
\* terminal frame; in every other state it returns None and the completion
\* hook is not invoked.
C4_NoPartialDelivery ==
    [][\A f \in pool :
          (fed' = Append(fed, f) /\ workers[f.seqid].st # "dead") =>
              /\ completed' # completed => CompleteFrames(Arrived(f))
              /\ ~CompleteFrames(Arrived(f)) =>
                    /\ results'[Len(results')] = "none"
                    /\ completed' = completed]_vars

\* C4, witness: the terminal frame is buffered above a hole, after a call
\* that returned None
C4_Witness ==
    /\ Len(workers[1].buf) = 2
    /\ workers[1].buf[1].num = 0
    /\ workers[1].buf[2].num = 2 /\ ~workers[1].buf[2].hasNext
    /\ results # <<>> /\ results[Len(results)] = "none"
    /\ completed = <<>>

\* the number of messages of sequence s handed to the completion hook
Completions(s) == Cardinality({i \in 1 .. Len(completed) : completed[i].id = s})

\* C29, as claimed: no sequence is handed to the completion hook twice,
\* whatever frames of it arrive after its worker has completed.
C29_OneCompletion == \A s \in SeqIds : Completions(s) <= 1

\* C30, as claimed: after a call that found the buffer terminal and dense and
\* its bytes not to deserialise, the worker of that sequence is dropped from
\* the map and nothing was handed to the completion hook.
C30_FailureContained ==
    (results # <<>> /\ results[Len(results)] = "panic") =>
        /\ workers[fed[Len(fed)].seqid] = NoWorker
        /\ completed = <<>>

----------------------------------------------------------------------------
(* Properties of the journal, under SpecJournal *)

C6_QueueAdmits == \A s \in queued : ~unknown(known, s)

\* C33: the journal is insertion-only: no call of save, queue or unknown
\* takes a seqid out of the known set, and a seqid that unknown has answered
\* false for stays known in every later state, whatever was called since.
C33_InsertionOnly ==
    /\ [][known \subseteq known']_vars
    /\ [](IF answer = <<>> THEN TRUE
           ELSE ~answer[2] => ~unknown(known, answer[1]))

\* C33, witness: unknown(1) has answered false and seqid 2 was saved and a
\* frame was queued on the same journal
C33_Witness ==
    /\ answer = <<1, FALSE>>
    /\ {1, 2} \subseteq saved /\ queued # {}
    /\ ~unknown(known, 1) /\ ~unknown(known, 2)

----------------------------------------------------------------------------
(* Properties of the intake, under SpecRouter *)

\* the number of times frame f occurs in the history h
Count(h, f) == Cardinality({i \in 1 .. Len(h) : h[i] = f})

\* the frames of the pool that carry seqid s
FramesOf(s) == {f \in pool : f.seqid = s}

\* C3, as claimed: once the netmod has handed every frame of a message for
\* this node (or for Flood) to the intake, the intake has passed all of them
\* to the collector and the message has been completed exactly once.
C3_Delivered ==
    \A s \in SeqIds :
        (/\ FramesOf(s) # {}
         /\ \A f \in FramesOf(s) : Collects(f.recipient) /\ Count(handed, f) >= 1) =>
            /\ \A f \in FramesOf(s) : Count(fed, f) >= 1
            /\ Cardinality({i \in 1 .. Len(completed) : completed[i].id = s}) = 1

\* C7, as claimed: a frame for this node (or for Flood) that was handed to
\* the intake twice was admitted by the journal exactly once and received by
\* the collector exactly once, and was re-emitted at most once.
C7_IngestIdempotent ==
    \A f \in pool :
        (Collects(f.recipient) /\ Count(handed, f) >= 2) =>
            /\ Count(admitted, f) = 1
            /\ Count(fed, f) = 1
            /\ Count(reflooded, f) <= 1

----------------------------------------------------------------------------
(* Properties of a flood, under SpecFlood *)

\* C34: loop suppression: in every topology each node re-emits a frame of
\* the flood message at most once, the origin never re-emits and never
\* collects a frame of its own message that comes back to it, and the number
\* of transmissions stays below one per frame and link, so that the
\* propagation stops by itself.
C34_FloodLoopSuppressed ==
    /\ \A n \in MeshNodes, f \in FloodFrames : mesh.emitted[n][f] <= 1
    /\ \A f \in FloodFrames :
          mesh.next > f.num =>
              mesh.emitted[Origin][f] = 0 /\ mesh.collected[Origin][f] = 0
    /\ mesh.nsent <= Cardinality(FloodFrames) * Cardinality(mesh.links)

\* C34, witness: in a ring of the four nodes the first frame has gone round:
\* every other node has re-emitted it once, it has come back to the origin,
\* which dropped it, and nothing is in flight any more
C34_Witness ==
    /\ mesh.links = {e \in Links : {e[1], e[2]} \in
                        {{"n1", "n2"}, {"n2", "n3"}, {"n3", "n4"}, {"n4", "n1"}}}
    /\ mesh.next = Cardinality(FloodFrames)
    /\ \A n \in MeshNodes \ {Origin} : mesh.emitted[n][FrameOfNum(0)] = 1
    /\ mesh.emitted[Origin][FrameOfNum(0)] = 0
    /\ \A e \in Links, f \in FloodFrames : mesh.wire[e][f] = 0

----------------------------------------------------------------------------
(* Properties of the UDP socket, under SpecUdp *)

\* the envelope of the last datagram the receive loop of n took
LastEnv(n) == from_bytes(rx[n].last[1].data)

\* C8, as claimed: after the receive loop has taken a Data envelope from a
\* source that has no entry in the address table, the loop is still running.
C8_UnknownPeerDropped ==
    \A n \in Nodes :
        (/\ rx[n].last # <<>>
         /\ LastEnv(n).kind = "data"
         /\ id(table[n], rx[n].last[1].src) = <<>>) => rx[n].pc # "dead"

\* C9, as claimed: after the receive loop has taken a datagram that is no
\* Announce, Reply or Data envelope, the loop is still running.
C9_MalformedDropped ==
    \A n \in Nodes :
        (rx[n].last # <<>> /\ LastEnv(n).kind = "error") => rx[n].pc # "dead"

\* C10: the entries made of the Data frames of known peers, in arrival order,
\* are the entries next() has returned so far, then the inbox, then the entry
\* the receive loop is about to push: nothing is lost, doubled or reordered.
C10_InboxFifo ==
    \A n \in Nodes : appended[n] = returned[n] \o inbox[n] \o rx[n].held

\* C10, witness: next() has returned two different frames while a third
\* entry waits in the inbox
C10_Witness ==
    /\ Len(returned[Tested]) = 2
    /\ returned[Tested][1].frame # returned[Tested][2].frame
    /\ inbox[Tested] # <<>>

\* C11, as claimed: once the receive loop has appended a frame and released
\* the inbox, a call of next() is not left pending: it was woken (and is
\* scheduled to poll again) or has returned, whenever its poll came.
C11_NoLostWakeup ==
    \A n \in Nodes :
        (inbox[n] # <<>> /\ rx[n].pc # "push") => consumer[n] # "pending"

\* C36: Socket::next never completes without a frame: a poll that takes the
\* inbox lock and finds the inbox empty registers the waker, stays pending
\* and leaves the inbox as it is; next completes only by popping the front
\* entry of a non-empty inbox, which is the entry it returns.
C36_NextNeedsFrame ==
    [][\A n \in Nodes :
          /\ (/\ consumer[n] = "ready" /\ consumer'[n] # "ready"
              /\ inbox[n] = <<>> /\ rx[n].pc # "push") =>
                 /\ consumer'[n] = "pending" /\ waker'[n]
                 /\ inbox'[n] = inbox[n] /\ returned'[n] = returned[n]
          /\ (consumer[n] # "idle" /\ consumer'[n] = "idle") =>
                 /\ inbox[n] # <<>>
                 /\ returned'[n] = Append(returned[n], Head(inbox[n]))
                 /\ inbox'[n] = Tail(inbox[n])
          /\ returned'[n] # returned[n] =>
                 consumer[n] = "ready" /\ consumer'[n] = "idle"]_vars

\* C36, witness: next has returned an entry, was called again and found the
\* inbox empty: it is pending with its waker registered
C36_Witness ==
    /\ Len(returned[Tested]) = 1 /\ inbox[Tested] = <<>>
    /\ consumer[Tested] = "pending" /\ waker[Tested]
    /\ rx[Tested].pc = "recv"

----------------------------------------------------------------------------
(* Properties of neighbour discovery, under SpecDiscovery *)

\* the table of node n holds the peer handle of m
Knows(n, m) == id(table[n], m) # <<>>

\* C12: once both sockets are started, in either order, and the multicast
\* datagrams are delivered, A's table comes to hold B's peer handle and B's
\* table A's.
C12_DiscoveryConverges ==
    (started["A"] /\ started["B"]) ~> (Knows("A", "B") /\ Knows("B", "A"))

\* C12, witness: B started first, A's Announce was answered, and each table
\* holds the other's handle with nothing left in flight
C12_Witness ==
    /\ Knows("A", "B") /\ Knows("B", "A")
    /\ table["B"][1] = "B"
    /\ net = {}

\* C13: a turn of the receive loop that takes an Announce records its source
\* and sends one Reply to the group, and nothing else; a turn that takes a
\* Reply records its source and sends nothing.
C13_HandshakeSteps ==
    [][\A d \in net :
          d \notin net' =>
              LET n == d.dst
                  kind == from_bytes(d.data).kind
                  group == {m \in Nodes : started[m]}
              IN  /\ kind = "announce" =>
                        /\ Knows(n, d.src)'
                        /\ Multicast(n, Reply, group) \subseteq net'
                        /\ net' \ net \subseteq Multicast(n, Reply, group)
                  /\ kind = "reply" =>
                        /\ Knows(n, d.src)'
                        /\ net' \subseteq net]_vars

\* C13, witness: B has taken A's Reply, which it recorded, and nothing is in
\* flight: the Reply was not answered
C13_Witness ==
    /\ rx["B"].last = <<[src |-> "A", data |-> Reply]>>
    /\ Knows("B", "A")
    /\ net = {}

\* C14, as claimed: the address table of a node has no entry for the node's
\* own socket address.
C14_SelfFiltered == \A n \in Nodes : ~Knows(n, n)

\* C28: with_addr spawns the receive task of the socket and sends one
\* Announce to the group, once: the step that creates socket n leaves its
\* receive task running and adds the Announce of n to the datagrams in flight
\* and nothing else, no later step adds an Announce of n, and whenever an
\* Announce of n or a Reply to n is in flight the receive task of n was
\* spawned.
C28_StartupOrder ==
    [][\A n \in Nodes :
          /\ (~started[n] /\ started'[n]) =>
                /\ rx[n].pc = "off" /\ rx'[n].pc = "recv"
                /\ Multicast(n, Announce, {n}) \subseteq net'
                /\ net' \ net = Multicast(n, Announce, {m \in Nodes : started'[m]})
          /\ started[n] =>
                /\ started'[n] /\ rx'[n].pc # "off"
                /\ \A d \in net' \ net : ~(d.src = n /\ d.data = Announce)
          /\ \A d \in net' :
                ((d.src = n /\ d.data = Announce) \/ (d.dst = n /\ d.data = Reply)) =>
                    rx'[n].pc # "off"]_vars

\* C28, witness: B was created after A; A has answered B's Announce, and the
\* Reply is in flight to B, whose receive task runs
C28_Witness ==
    /\ [src |-> "A", dst |-> "B", data |-> Reply] \in net
    /\ rx["B"].pc = "recv" /\ rx["B"].last = <<>>
    /\ table["A"] = <<"A", "B">>

----------------------------------------------------------------------------
(* Properties of a unicast, under SpecUnicast *)

\* the entry s2 is to yield for the frame f that s1 sent
Expected(f) == [frame |-> f, target |-> id(table["B"], "A")[1]]

\* C15: a Data envelope decodes to the frame it was made of, and every
\* entry s2.next() yields is the frame of a send(f, p2) of s1, tagged with
\* the id s2's table assigns to s1; as long as one frame only was sent, it is
\* that frame.
C15_UnicastRoundTrip ==
    /\ \A f \in Frames : from_bytes(Data(f)) = [kind |-> "data", frame |-> f]
    /\ \A i \in 1 .. Len(returned["B"]) :
          \E s \in sent : s.src = "A" /\ s.dst = "B" /\ returned["B"][i] = Expected(s.frame)

\* C15, witness: s1 sent frame 1 only, s2's table assigns id 1 to s1, and
\* s2.next() has yielded the frame tagged Single(1)
C15_Witness ==
    /\ sent = {[src |-> "A", dst |-> "B", frame |-> 1]}
    /\ returned["B"] = <<[frame |-> 1, target |-> 1]>>

----------------------------------------------------------------------------
(* Properties of the IPC daemon, under SpecIpc *)

\* this step is the handshake of connection c, and the stream took what was
\* written to it
Handshake(c) ==
    conn[c].phase = "new" /\ conn'[c].phase # "new" /\ conn'[c].res # "io"

\* the first message that the handshake of connection c read
First(c) == conn'[c].first[1]

\* C16: a handshake whose first message is setup{ONLINE} with an id and a
\* token brings that id online on the router, writes one online-ack that
\* carries the same id, and returns the id as the address of the session.
C16_KnownClient ==
    [][\A c \in Conns :
          (/\ Handshake(c)
           /\ First(c).arm = "setup" /\ First(c).type = "ONLINE"
           /\ First(c).id # <<>> /\ First(c).token # <<>>) =>
              LET i == Identity_from_bytes(First(c).id[1])
              IN  /\ online' = online \cup {i}
                  /\ i \in locals'
                  /\ conn'[c].out = <<api_setup("ONLINE_ACK", First(c).id, <<>>)>>
                  /\ conn'[c].res = "some" /\ conn'[c].addr = <<i>>
                  /\ conn'[c].phase = "open"]_vars

\* C16, witness: a client came with the id bytes 1,0 and a token, the router
\* holds identity 2 as online and the session has it as its address
C16_Witness ==
    /\ conn[1].first = <<api_setup("ONLINE", <<<<1, 0>>>>, <<"t">>)>>
    /\ conn[1].addr = <<2>> /\ 2 \in online
    /\ conn[1].out = <<online_ack(2)>>

\* C17: a handshake whose first message is setup{ONLINE} with neither id nor
\* token generates an identity the router did not hold, registers it, brings
\* it online, writes one online-ack that carries exactly that identity, and
\* returns it as the address of the session.
C17_NewClient ==
    [][\A c \in Conns :
          (/\ Handshake(c)
           /\ First(c).arm = "setup" /\ First(c).type = "ONLINE"
           /\ First(c).id = <<>> /\ First(c).token = <<>>) =>
              \E x \in Identities \ locals :
                  /\ locals' = locals \cup {x}
                  /\ online' = online \cup {x}
                  /\ conn'[c].out = <<online_ack(x)>>
                  /\ Identity_from_bytes(conn'[c].out[1].id[1]) = x
                  /\ conn'[c].res = "some" /\ conn'[c].addr = <<x>>
                  /\ conn'[c].phase = "open"]_vars

\* C17, witness: the router held identity 1; a new client was given another
\* identity, which is registered and online, and was told of it
C17_Witness ==
    /\ conn[1].first = <<api_setup("ONLINE", <<>>, <<>>)>>
    /\ conn[1].res = "some"
    /\ conn[1].addr # <<1>> /\ conn[1].out = <<online_ack(conn[1].addr[1])>>
    /\ locals = {1, conn[1].addr[1]} /\ online = locals

NoHandshake(m) ==
    \/ m.arm = "setup" /\ m.type = "ONLINE" /\ ((m.id = <<>>) # (m.token = <<>>))
    \/ m.arm = "setup" /\ m.type \notin {"ONLINE", "ANONYMOUS"}
    \/ m.arm \in {"send", "recv", "peers", "none"}

\* C19: a handshake whose first message is none of the three handshakes
\* fails with InvalidAuth and writes nothing to the stream.
C19_Rejected ==
    [][\A c \in Conns :
          (conn[c].phase = "new" /\ conn'[c].phase # "new" /\ NoHandshake(First(c))) =>
              /\ conn'[c].res = "InvalidAuth"
              /\ conn'[c].out = <<>>
              /\ conn'[c].phase = "closed"]_vars

\* C19, witness: a setup{ONLINE} with an id and no token was rejected, and so
\* was a setup{ONLINE} with a token and no id
C19_Witness ==
    /\ conn[1].first = <<api_setup("ONLINE", <<<<0, 1>>>>, <<>>)>>
    /\ conn[1].res = "InvalidAuth" /\ conn[1].out = <<>>
    /\ conn[2].first = <<api_setup("ONLINE", <<>>, <<"t">>)>>
    /\ conn[2].res = "InvalidAuth" /\ conn[2].out = <<>>

\* C20: on a session that was assigned identity X by the ONLINE handshake, a
\* turn of the request loop that handles peers{REQ} writes one peers response
\* whose list is router.known_addresses() and holds X; a peers message of
\* another type is answered with nothing.
C20_PeersReflectRegistration ==
    [][\A c \in Conns :
          (conn[c].phase = "open" /\ nreq' = nreq + 1 /\ conn'[c].last # <<>>) =>
              LET m == conn'[c].last[1]
              IN  /\ (/\ m.arm = "peers" /\ m.type = "REQ"
                      /\ conn'[c] # conn[c] /\ conn'[c].phase = "open") =>
                         /\ conn'[c].out = Append(conn[c].out, api_peers("RESP", locals))
                         /\ conn[c].addr[1] \in conn'[c].out[Len(conn'[c].out)].peers
                  /\ (m.arm = "peers" /\ m.type # "REQ") => conn'[c].out = conn[c].out]_vars

\* C20, witness: a new client was told of its identity and then of the two
\* addresses the router knows, its own among them
C20_Witness ==
    /\ conn[1].first = <<api_setup("ONLINE", <<>>, <<>>)>>
    /\ conn[1].last = <<api_peers("REQ", {})>>
    /\ Len(conn[1].out) = 2
    /\ conn[1].out[1] = online_ack(conn[1].addr[1])
    /\ conn[1].out[2] = api_peers("RESP", {1, conn[1].addr[1]})
    /\ conn[1].addr[1] # 1

\* C21, as claimed: after the request loop has handled a send, router.send
\* was called once for each message the send expands to, in their order.
C21_EveryMessageDispatched ==
    \A c \in Conns :
        (conn[c].last # <<>> /\ conn[c].last[1].arm = "send") =>
            conn[c].calls = send_to_message(conn[c].last[1])

C38_FailedAuthNoChange ==
    [][\A c \in Conns :
          (/\ conn[c].phase = "new" /\ conn'[c].phase # "new"
           /\ conn'[c].res \in {"InvalidAuth", "parse", "io"}) =>
              locals' = locals /\ online' = online]_vars

\* C39: every online-ack that was written to a client carries an identity
\* that is registered and online on the router.
C39_AckFollowsRegistration ==
    \A c \in Conns :
        \A k \in 1 .. Len(conn[c].out) :
            (conn[c].out[k].arm = "setup" /\ conn[c].out[k].type = "ONLINE_ACK") =>
                LET i == Identity_from_bytes(conn[c].out[k].id[1])
                IN  i \in online /\ i \in locals

\* C39, witness: a new client and a known client have both received their
\* online-ack, and both identities are online
C39_Witness ==
    /\ conn[1].first = <<api_setup("ONLINE", <<>>, <<>>)>>
    /\ conn[1].out = <<online_ack(0)>> /\ 0 \in online
    /\ conn[2].first = <<api_setup("ONLINE", <<<<1, 0>>>>, <<"u">>)>>
    /\ conn[2].out = <<online_ack(2)>> /\ 2 \in online

\* C31, as claimed: a turn of the request loop on an envelope that was
\* parsed leaves the session open, and writes nothing to the client but the
\* response to a peers request.
C31_RequestKeepsSession ==
    [][\A c \in Conns :
          (/\ nreq' = nreq + 1 /\ conn[c].phase = "open"
           /\ conn'[c].last # <<>> /\ conn'[c].last[1].arm # "garbage") =>
              /\ conn'[c].phase = "open"
              /\ \/ conn'[c].out = conn[c].out
                 \/ /\ conn'[c].last[1] = api_peers("REQ", {})
                    /\ conn'[c].out = Append(conn[c].out, all_peers(known_addresses(locals)))]_vars

----------------------------------------------------------------------------
(* Properties of the relay, under SpecRelay *)

\* this step is a turn of the relay loop
RelayTurn == yielded'.n = yielded.n + 1

\* the message of this turn, and the sessions whose stream refused it
Turn == yielded'.last[1]

\* the recv envelope that carries message k with the optional recipient to
Recv(k, to) == [ApiMsg("recv", "", <<k>>, <<>>, {}) EXCEPT !.to = to]

\* the sessions in the online map
Registered == {onlineMap[i] : i \in DOMAIN onlineMap}

\* C22: a turn of the relay on a message for User(id), id in the online map,
\* writes one recv envelope to the session registered for id (when its
\* stream takes it) and nothing to any other session.
C22_UnicastIsolation ==
    [][(/\ RelayTurn
        /\ Turn.msg.recipient # <<>>
        /\ Turn.msg.recipient[1] \in DOMAIN onlineMap) =>
            LET c == onlineMap[Turn.msg.recipient[1]]
            IN  /\ conn'[c].out =
                      IF c \in Turn.failing THEN conn[c].out
                      ELSE Append(conn[c].out, Recv(Turn.msg.id, Turn.msg.recipient))
                /\ \A o \in Conns \ {c} : conn'[o] = conn[o]]_vars

\* C22, witness: both clients are online, message 1 for identity 2 was
\* written to the session of identity 2 and to it only
C22_Witness ==
    /\ DOMAIN onlineMap = {1, 2}
    /\ yielded.last = <<[msg |-> RouterMsg(1, <<2>>), failing |-> {}]>>
    /\ conn[onlineMap[2]].out = <<online_ack(2), Recv(1, <<2>>)>>
    /\ conn[onlineMap[1]].out = <<online_ack(1)>>

\* C23: a turn of the relay on a Flood message writes the recv envelope once
\* to every session that is in the online map at that moment (and whose
\* stream takes it) and to no other, and the recipient of the envelope is
\* None.
C23_FloodFanOut ==
    [][(RelayTurn /\ Turn.msg.recipient = <<>>) =>
            \A c \in Conns :
                IF c \in Registered \ Turn.failing
                THEN /\ conn'[c].out = Append(conn[c].out, Recv(Turn.msg.id, <<>>))
                     /\ conn'[c].out[Len(conn'[c].out)].to = <<>>
                ELSE conn'[c] = conn[c]]_vars

\* C23, witness: both clients are online and each was written the one Flood
\* message
C23_Witness ==
    /\ DOMAIN onlineMap = {1, 2}
    /\ yielded.last = <<[msg |-> RouterMsg(1, <<>>), failing |-> {}]>>
    /\ \A i \in {1, 2} : conn[onlineMap[i]].out = <<online_ack(i), Recv(1, <<>>)>>

\* C24: when the stream of one session refuses the envelope, the turn still
\* writes it to every other session it is for, removes no session from the
\* online map and closes none, and the relay takes the next message.
C24_WriteFailureIsolated ==
    /\ [][(RelayTurn /\ Turn.failing # {}) =>
             /\ \A c \in Registered \ Turn.failing :
                   (\/ Turn.msg.recipient = <<>>
                    \/ /\ Turn.msg.recipient[1] \in DOMAIN onlineMap
                       /\ onlineMap[Turn.msg.recipient[1]] = c) =>
                       conn'[c].out = Append(conn[c].out, Recv(Turn.msg.id, Turn.msg.recipient))
             /\ onlineMap' = onlineMap
             /\ \A c \in Conns : conn'[c].phase = conn[c].phase]_vars
    /\ [](yielded.n < MaxYielded => ENABLED Relay(<<>>, {}))

\* C24, witness: the stream of the first session of a Flood fan-out refused
\* the envelope and the second session was written it; the relay then took
\* the next message
C24_Witness ==
    /\ DOMAIN onlineMap = {1, 2}
    /\ yielded.n = 2
    /\ conn[onlineMap[1]].out = <<online_ack(1), Recv(2, <<1>>)>>
    /\ conn[onlineMap[2]].out = <<online_ack(2), Recv(1, <<>>)>>

\* the places of the stream of connection c where a recv envelope was written
RecvAt(c) == {i \in 1 .. Len(conn[c].out) : conn[c].out[i].arm = "recv"}

\* C25: the recv envelopes on the stream of a client are in the order in
\* which router.next() yielded their messages.
C25_DeliveryOrder ==
    \A c \in Conns : \A i, j \in RecvAt(c) :
        i < j => conn[c].out[i].id[1] < conn[c].out[j].id[1]

\* C25, witness: the client with identity 1 was written message 1, a Flood,
\* then a peers response, then message 2, addressed to it
C25_Witness ==
    \E c \in Conns :
        /\ Len(conn[c].out) = 4
        /\ conn[c].out[2] = Recv(1, <<>>)
        /\ conn[c].out[3].arm = "peers"
        /\ conn[c].out[4] = Recv(2, <<1>>)

\* a session of another connection than c may still come online
Accepting(c) ==
    \A o \in Conns \ {c} :
        conn[o].phase = "new" =>
            ENABLED Auth(o, api_setup("ONLINE", <<<<0, 1>>>>, <<"t">>), TRUE)

\* C27: a parse error ends the request loop of its session; the step changes
\* no other session, the online map or the relay, and afterwards the relay
\* still takes messages and another connection is still accepted.
C27_ParseErrorEndsOneSession ==
    /\ [][\A c \in Conns :
             /\ (/\ conn[c].phase = "open" /\ nreq' = nreq + 1
                 /\ conn'[c] # conn[c] /\ conn'[c].last = <<Garbage>>) =>
                    conn'[c].phase = "closed"
             /\ (conn[c].phase = "open" /\ conn'[c].phase = "closed") =>
                    /\ conn'[c].last = <<Garbage>>
                    /\ \A o \in Conns \ {c} : conn'[o] = conn[o]
                    /\ onlineMap' = onlineMap /\ yielded' = yielded]_vars
    /\ [](\A c \in Conns :
             (conn[c].phase = "closed" /\ conn[c].last = <<Garbage>>) =>
                 /\ Accepting(c)
                 /\ yielded.n < MaxYielded => ENABLED Relay(<<>>, {}))

\* C27, witness: the session of identity 1 ended on a parse error; the other
\* client is online, was written a message and its request loop goes on
C27_Witness ==
    /\ DOMAIN onlineMap = {1, 2}
    /\ conn[onlineMap[1]].phase = "closed"
    /\ conn[onlineMap[1]].last = <<Garbage>>
    /\ conn[onlineMap[2]].phase = "open"
    /\ conn[onlineMap[2]].out = <<online_ack(2), Recv(1, <<2>>)>>

----------------------------------------------------------------------------
(* Properties of the session streams, under SpecStream *)

\* C40: a message for an address that is not in the online map is consumed
\* and written to no session; a recv envelope is written only in the turn
\* that took its message from router.next(), so a session that comes online
\* later does not receive it.
C40_OfflineDiscarded ==
    [][/\ (/\ RelayTurn /\ Turn.msg.recipient # <<>>
            /\ Turn.msg.recipient[1] \notin DOMAIN onlineMap) =>
               /\ conn' = conn
               /\ yielded'.n = yielded.n + 1
       /\ \A c \in Conns :
             (/\ conn'[c].out # conn[c].out /\ conn'[c].out # <<>>
              /\ conn'[c].out[Len(conn'[c].out)].arm = "recv") =>
                 /\ RelayTurn
                 /\ conn'[c].out = Append(conn[c].out, received(Turn.msg))
                 /\ Turn.msg.id = yielded'.n]_vars

\* C40, witness: the one message the relay took was for address 1, no stream
\* refused a write, and the session that is online as 1 holds its online-ack
\* only: it came online after the message was discarded
C40_Witness ==
    /\ yielded.n = 1
    /\ yielded.last = <<[msg |-> RouterMsg(1, <<1>>), failing |-> {}]>>
    /\ conn[1].phase = "open" /\ conn[1].addr = <<1>>
    /\ conn[1].out = <<online_ack(1)>>
    /\ 1 \in DOMAIN onlineMap /\ onlineMap[1] = 1

\* C37: run cancels the relay task when it returns; once run has returned
\* it stays returned, the relay takes no further message from router.next()
\* and no recv envelope is written to any session.
C37_RelayShutdown ==
    /\ [](yielded.run = "returned" => yielded.relay = "cancelled")
    /\ [][yielded.run = "returned" =>
             /\ yielded' = yielded
             /\ \A c \in Conns :
                   SelectSeq(conn'[c].out, LAMBDA e : e.arm = "recv")
                       = SelectSeq(conn[c].out, LAMBDA e : e.arm = "recv")]_vars

\* C37, witness: the relay had forwarded a message to an open session when
\* run returned; the session went on to ask for the peers and was answered
C37_Witness ==
    /\ yielded.run = "returned" /\ yielded.n = 1
    /\ conn[1].phase = "open"
    /\ Len(conn[1].out) = 3
    /\ conn[1].out[2].arm = "recv" /\ conn[1].out[3].arm = "peers"

\* C26, as claimed: on every stream the length of an envelope is followed by
\* the bytes of that envelope, written by the same task: the relay and the
\* request loop of a session are never both in the middle of a write.
C26_StreamExclusive ==
    \A c \in Conns :
        /\ \A i \in 1 .. Len(stream.bytes[c]) - 1 :
              stream.bytes[c][i].part = "len" =>
                  stream.bytes[c][i + 1] = write_with_length(stream.bytes[c][i].by, "body")
        /\ ~(/\ stream.relay # <<>> /\ stream.relay[1].to = c
             /\ stream.relay[1].at = "body"
             /\ stream.loop[c] = "body")

\* C32, as claimed: the relay does not hold the lock of the online map while
\* it writes a recv envelope to the stream of a session.
C32_NoWriteUnderMapLock ==
    (stream.relay # <<>> /\ stream.relay[1].at \in {"len", "body"}) => ~stream.map

====
